---- MODULE Spec2Model ----
(***************************************************************************)
(* Model of backend/ai_matcher.py: the FaceMatcher facade (compare_faces,  *)
(* find_matches, batch_compare) over an environment of image URLs.         *)
(*                                                                         *)
(* Python values that may be None are records with an isNone field, so    *)
(* that "x is None" is a field test.  A dict is a record; a key that is    *)
(* absent from the dict is a field that is absent from the record.         *)
(* Similarities are percentages computed in exact arithmetic and rounded   *)
(* down to a whole percent; thresholds are whole percents.                 *)
(*                                                                         *)
(* Three specifications share the module: Spec and SpecAny run the         *)
(* searches; SpecSimilarity applies calculate_similarity to vectors and    *)
(* SpecCrop applies the crop of extract_face to detections, each over      *)
(* inputs of its own (variables sc and ef).                                *)
(***************************************************************************)
EXTENDS Integers, Sequences, FiniteSets, TLC

VARIABLES model, face_cascade, missing_person_images, unidentified_persons,
          threshold, fm, bc, sc, ef

vars == <<model, face_cascade, missing_person_images, unidentified_persons,
          threshold, fm, bc, sc, ef>>

---------------------------------------------------------------------------
(* Bounds of the explored inputs *)

\* longest query image list
MaxQuery == 2
\* longest image list of one candidate
MaxImages == 2
\* longest candidate list
MaxCands == 2
\* longest feature vector given to calculate_similarity on its own
MaxDim == 2
\* largest absolute value of a component of such a vector
MaxAbs == 2
\* widest and highest image given to the crop of extract_face on its own
MaxCols == 7
MaxRows == 5
\* most faces detected in such an image
MaxFaces == 2

---------------------------------------------------------------------------
(* Python values *)

PyNone == [isNone |-> TRUE]

PyList(s) == [isNone |-> FALSE, items |-> s]

\* Python truthiness of a list-or-None: None and [] are falsy
Truthy(x) == (~x.isNone) /\ Len(x.items) > 0

\* all sequences over S of length at most n
SeqsUpTo(S, n) == UNION {[1..k -> S] : k \in 0..n}

RECURSIVE SumSeq(_)
SumSeq(s) == IF s = <<>> THEN 0 ELSE Head(s) + SumSeq(Tail(s))

---------------------------------------------------------------------------
(* The environment: what is behind each URL *)

\* "f": the download fails; "g": the image downloads but running the network
\* on its face fails; "a", "b": images with the embeddings below
Urls == {"f", "g", "a", "b"}

Unreachable == {"f"}

Unextractable == {"g"}

Embedding == [a |-> <<1, 0>>, b |-> <<1, 1>>]

Thresholds == {0, 70, 100}

---------------------------------------------------------------------------
(* FaceMatcher.__init__ *)

\* the fields after construction, by what happened while loading
FaceMatcherInit(modelLoads, cascadeFileExists, cascadeEmpty) ==
  IF ~modelLoads
    THEN [model |-> "None", face_cascade |-> "None"]
    ELSE IF ~cascadeFileExists
      THEN [model |-> "loaded", face_cascade |-> "None"]
      ELSE IF cascadeEmpty
        THEN [model |-> "loaded", face_cascade |-> "None"]
        ELSE [model |-> "loaded", face_cascade |-> "loaded"]

---------------------------------------------------------------------------
(* Per-image pipeline *)

download_image(image_url) ==
  IF image_url \in Unreachable
    THEN PyNone
    ELSE [isNone |-> FALSE, img |-> image_url]

\* the returned face is the padded crop or the whole image of image_url
extract_face(image_url) ==
  IF face_cascade = "None"
    THEN PyNone
    ELSE LET img == download_image(image_url)
         IN  IF img.isNone THEN PyNone ELSE img

extract_features(face_img) ==
  IF model = "None"
    THEN PyNone
    ELSE IF face_img.isNone
      THEN PyNone
      ELSE IF face_img.img \in Unextractable
        THEN PyNone
        ELSE [isNone |-> FALSE, vec |-> Embedding[face_img.img]]

---------------------------------------------------------------------------
(* The crop of extract_face: from the detections to the returned region *)

\* An image is its shape [rows, cols]; a detection is a box [x, y, w, h];
\* the returned array is the region [x, y, w, h] of the image it covers.

\* min(a, b) and max(a, b) of two numbers
PyMin(a, b) == IF b < a THEN b ELSE a

PyMax(a, b) == IF b > a THEN b ELSE a

\* max(faces, key=lambda rect: rect[2] * rect[3]): the first box among those
\* of largest area
LargestFace(faces) ==
  LET area(i) == faces[i].w * faces[i].h
      first == CHOOSE i \in 1..Len(faces) :
                 /\ \A j \in 1..Len(faces) : area(j) <= area(i)
                 /\ \A j \in 1..(i - 1) : area(j) < area(i)
  IN  faces[first]

\* the indices start:stop that a slice a[lo:hi] selects on an axis of
\* length n: a negative end counts from n, both ends are cut to 0..n, and
\* nothing is selected when stop is not after start
Slice(lo, hi, n) ==
  LET cut(i) == IF i < 0 THEN PyMax(i + n, 0) ELSE PyMin(i, n)
  IN  [start |-> cut(lo), stop |-> PyMax(cut(hi), cut(lo))]

\* PaddedBox without the clamp of the corner at 0
PaddedBoxNoCornerClamp(img, rect) ==
  LET padding == (PyMin(rect.w, rect.h) * 2) \div 10
      x == rect.x - padding
      y == rect.y - padding
      w == PyMin(img.cols - x, rect.w + 2 * padding)
      h == PyMin(img.rows - y, rect.h + 2 * padding)
  IN  [x |-> x, y |-> y, w |-> w, h |-> h]

\* PaddedBox with the width and height limited from the corner of the
\* detection instead of the padded corner
PaddedBoxFromOldCorner(img, rect) ==
  LET padding == (PyMin(rect.w, rect.h) * 2) \div 10
      x == PyMax(0, rect.x - padding)
      y == PyMax(0, rect.y - padding)
      w == PyMin(img.cols - rect.x, rect.w + 2 * padding)
      h == PyMin(img.rows - rect.y, rect.h + 2 * padding)
  IN  [x |-> x, y |-> y, w |-> w, h |-> h]

\* lines 92-96: padding = int(min(w, h) * 0.2), then the clamped corner and
\* the width and height limited by what is left of the image
PaddedBox(img, rect) ==
  LET padding == (PyMin(rect.w, rect.h) * 2) \div 10
      x == PyMax(0, rect.x - padding)
      y == PyMax(0, rect.y - padding)
      w == PyMin(img.cols - x, rect.w + 2 * padding)
      h == PyMin(img.rows - y, rect.h + 2 * padding)
  IN  [x |-> x, y |-> y, w |-> w, h |-> h]

\* lines 88-103 on a decoded image: img[y:y+h, x:x+w] of the padded box of
\* the largest face, or img itself when no face is detected
ExtractFaceRegion(img, faces) ==
  IF Len(faces) > 0
    THEN LET b == PaddedBox(img, LargestFace(faces))
             rows == Slice(b.y, b.y + b.h, img.rows)
             cols == Slice(b.x, b.x + b.w, img.cols)
         IN  [x |-> cols.start, y |-> rows.start,
              w |-> cols.stop - cols.start, h |-> rows.stop - rows.start]
    ELSE [x |-> 0, y |-> 0, w |-> img.cols, h |-> img.rows]

---------------------------------------------------------------------------
(* calculate_similarity *)

Dot(u, v) == SumSeq([i \in 1..Len(u) |-> u[i] * v[i]])

\* the square of np.linalg.norm
NormSq(u) == Dot(u, u)

\* p <= ((similarity + 1) / 2) * 100, where similarity is
\* dot / (norm1 * norm2) clipped to [-1, 1]; with d = p - 50 this is
\* d <= 50 * similarity, decided on the squares (n1, n2: squared norms)
\* AtMostPercentage for a percentage computed as (similarity / 2) * 100,
\* without the shift by 1 (a negative value read as 0)
AtMostPercentageNoShift(p, dot, n1, n2) ==
  \/ p = 0
  \/ /\ dot > 0
     /\ p * p <= 2500
     /\ p * p * n1 * n2 <= 2500 * dot * dot

\* AtMostPercentage for a percentage computed from the absolute value of
\* the similarity
AtMostPercentageUnsigned(p, dot, n1, n2) ==
  LET d == p - 50
  IN  IF d <= 0
        THEN TRUE
        ELSE /\ dot # 0
             /\ d * d <= 2500
             /\ d * d * n1 * n2 <= 2500 * dot * dot

AtMostPercentage(p, dot, n1, n2) ==
  LET d == p - 50
  IN  IF d <= 0
        THEN \/ dot >= 0
             \/ d * d >= 2500
             \/ d * d * n1 * n2 >= 2500 * dot * dot
        ELSE /\ dot > 0
             /\ d * d <= 2500
             /\ d * d * n1 * n2 <= 2500 * dot * dot

calculate_similarity(features1, features2) ==
  IF features1.isNone \/ features2.isNone
    THEN 0
    ELSE IF Len(features1.vec) = 0 \/ Len(features2.vec) = 0
      THEN 0
      ELSE LET norm1sq == NormSq(features1.vec)
               norm2sq == NormSq(features2.vec)
           IN  IF norm1sq = 0 \/ norm2sq = 0
                 THEN 0
                 ELSE IF Len(features1.vec) # Len(features2.vec)
                   THEN 0
                   ELSE LET dot == Dot(features1.vec, features2.vec)
                        IN  CHOOSE p \in 0..100 :
                              /\ AtMostPercentage(p, dot, norm1sq, norm2sq)
                              /\ \/ p = 100
                                 \/ ~AtMostPercentage(p + 1, dot, norm1sq, norm2sq)

\* the feature vectors the network returns in this environment
Features == {[isNone |-> FALSE, vec |-> Embedding[u]] : u \in DOMAIN Embedding}

\* calculate_similarity tabulated over Features (evaluated once)
Similarity == [f1 \in Features, f2 \in Features |-> calculate_similarity(f1, f2)]

---------------------------------------------------------------------------
(* compare_faces *)

compare_faces(face1_url, face2_url) ==
  LET face1 == extract_face(face1_url)
      face2 == extract_face(face2_url)
  IN  IF face1.isNone
        THEN 0
        ELSE IF face2.isNone
          THEN 0
          ELSE LET features1 == extract_features(face1)
                   features2 == extract_features(face2)
               IN  IF features1.isNone \/ features2.isNone
                     THEN 0
                     ELSE Similarity[features1, features2]

---------------------------------------------------------------------------
(* find_matches *)

\* dict.get: the value of the key, or the default when the key is absent
GetImages(unidentified) ==
  IF "images" \in DOMAIN unidentified THEN unidentified.images ELSE PyList(<<>>)

GetId(unidentified) ==
  IF "_id" \in DOMAIN unidentified THEN ToString(unidentified._id) ELSE "unknown"

\* for unidentified_img in unidentified_images (from index j), for one
\* missing_img; calls logs every compare_faces call
RECURSIVE FmImageLoop(_, _, _, _, _, _, _)
\* FmImageLoop without the break at the threshold
FmImageLoopNoBreak(k, missing_img, images, j, best, thr, calls) ==
  IF j > Len(images)
    THEN [best |-> best, calls |-> calls]
    ELSE LET similarity == compare_faces(missing_img, images[j])
             calls2 == Append(calls, [cand |-> k, missing_img |-> missing_img,
                                      unidentified_img |-> images[j],
                                      similarity |-> similarity])
         IN  FmImageLoop(k, missing_img, images, j + 1,
                         IF similarity > best THEN similarity ELSE best,
                         thr, calls2)

FmImageLoop(k, missing_img, images, j, best, thr, calls) ==
  IF j > Len(images)
    THEN [best |-> best, calls |-> calls]
    ELSE LET similarity == compare_faces(missing_img, images[j])
             calls2 == Append(calls, [cand |-> k, missing_img |-> missing_img,
                                      unidentified_img |-> images[j],
                                      similarity |-> similarity])
         IN  IF similarity > best
               THEN IF similarity >= thr
                      THEN [best |-> similarity, calls |-> calls2]
                      ELSE FmImageLoop(k, missing_img, images, j + 1,
                                       similarity, thr, calls2)
               ELSE FmImageLoop(k, missing_img, images, j + 1, best, thr, calls2)

\* for missing_img in missing_person_images (from index i), for one candidate
RECURSIVE FmQueryLoop(_, _, _, _, _, _, _)
\* FmQueryLoop that compares the first query image only
FmQueryLoopFirstOnly(k, query, images, i, best, thr, calls) ==
  IF i > Len(query) \/ i > 1
    THEN [best |-> best, calls |-> calls]
    ELSE LET r == FmImageLoop(k, query[i], images, 1, best, thr, calls)
         IN  IF r.best >= thr
               THEN r
               ELSE FmQueryLoop(k, query, images, i + 1, r.best, thr, r.calls)

FmQueryLoop(k, query, images, i, best, thr, calls) ==
  IF i > Len(query)
    THEN [best |-> best, calls |-> calls]
    ELSE LET r == FmImageLoop(k, query[i], images, 1, best, thr, calls)
         IN  IF r.best >= thr
               THEN r
               ELSE FmQueryLoop(k, query, images, i + 1, r.best, thr, r.calls)

\* for unidentified in unidentified_persons (from index k)
RECURSIVE FmCandLoop(_, _, _, _, _, _)
\* FmCandLoop that appends best_match whatever its similarity
FmCandLoopNoFilter(query, persons, k, thr, matches, calls) ==
  IF k > Len(persons)
    THEN [raised |-> FALSE, matches |-> matches, calls |-> calls]
    ELSE LET unidentified_id == GetId(persons[k])
             unidentified_images == GetImages(persons[k])
         IN  IF ~Truthy(unidentified_images)
               THEN FmCandLoop(query, persons, k + 1, thr, matches, calls)
               ELSE LET r == FmQueryLoop(k, query, unidentified_images.items,
                                         1, 0, thr, calls)
                        best_match ==
                          [unidentified_id |-> unidentified_id,
                           similarity |-> r.best,
                           unidentified_images |-> unidentified_images]
                    IN  FmCandLoop(query, persons, k + 1, thr,
                                   Append(matches, best_match), r.calls)

\* FmCandLoop that puts each new match at the head of the list
FmCandLoopPrepend(query, persons, k, thr, matches, calls) ==
  IF k > Len(persons)
    THEN [raised |-> FALSE, matches |-> matches, calls |-> calls]
    ELSE LET unidentified_id == GetId(persons[k])
             unidentified_images == GetImages(persons[k])
         IN  IF ~Truthy(unidentified_images)
               THEN FmCandLoop(query, persons, k + 1, thr, matches, calls)
               ELSE LET r == FmQueryLoop(k, query, unidentified_images.items,
                                         1, 0, thr, calls)
                        best_match ==
                          [unidentified_id |-> unidentified_id,
                           similarity |-> r.best,
                           unidentified_images |-> unidentified_images]
                    IN  FmCandLoop(query, persons, k + 1, thr,
                                   IF r.best >= thr
                                     THEN <<best_match>> \o matches
                                     ELSE matches,
                                   r.calls)

FmCandLoop(query, persons, k, thr, matches, calls) ==
  IF k > Len(persons)
    THEN [raised |-> FALSE, matches |-> matches, calls |-> calls]
    ELSE LET unidentified_id == GetId(persons[k])
             unidentified_images == GetImages(persons[k])
         IN  IF ~Truthy(unidentified_images)
               THEN FmCandLoop(query, persons, k + 1, thr, matches, calls)
               ELSE LET r == FmQueryLoop(k, query, unidentified_images.items,
                                         1, 0, thr, calls)
                        best_match ==
                          [unidentified_id |-> unidentified_id,
                           similarity |-> r.best,
                           unidentified_images |-> unidentified_images]
                    IN  FmCandLoop(query, persons, k + 1, thr,
                                   IF r.best >= thr
                                     THEN Append(matches, best_match)
                                     ELSE matches,
                                   r.calls)

\* FindMatches whose guard tests "is None" where the code tests "not"
FindMatchesNoneCheck(query, persons, thr) ==
  IF query.isNone \/ persons.isNone
    THEN [raised |-> FALSE, matches |-> <<>>, calls |-> <<>>]
    ELSE FmCandLoop(query.items, persons.items, 1, thr, <<>>, <<>>)

FindMatches(query, persons, thr) ==
  IF ~Truthy(query) \/ ~Truthy(persons)
    THEN [raised |-> FALSE, matches |-> <<>>, calls |-> <<>>]
    ELSE FmCandLoop(query.items, persons.items, 1, thr, <<>>, <<>>)

---------------------------------------------------------------------------
(* batch_compare *)

\* for img_url in unidentified_images (from index j): the features_list of
\* candidate k; extracts logs every extract_face call, and under "features"
\* whether extract_features was called on its face
RECURSIVE BcFeaturesLoop(_, _, _, _, _)
\* BcFeaturesLoop that leaves the loop at the first image that fails
BcFeaturesLoopStopAtFailure(k, images, j, features_list, extracts) ==
  IF j > Len(images)
    THEN [features_list |-> features_list, extracts |-> extracts]
    ELSE LET face == extract_face(images[j])
             features == extract_features(face)
             extracts2 == Append(extracts, [phase |-> "unidentified", cand |-> k,
                                            url |-> images[j],
                                            features |-> ~face.isNone])
         IN  IF ~face.isNone /\ ~features.isNone
               THEN BcFeaturesLoop(k, images, j + 1,
                                   Append(features_list, features), extracts2)
               ELSE [features_list |-> features_list, extracts |-> extracts2]

BcFeaturesLoop(k, images, j, features_list, extracts) ==
  IF j > Len(images)
    THEN [features_list |-> features_list, extracts |-> extracts]
    ELSE LET face == extract_face(images[j])
             features == extract_features(face)
             extracts2 == Append(extracts, [phase |-> "unidentified", cand |-> k,
                                            url |-> images[j],
                                            features |-> ~face.isNone])
         IN  IF ~face.isNone
               THEN IF ~features.isNone
                      THEN BcFeaturesLoop(k, images, j + 1,
                                          Append(features_list, features), extracts2)
                      ELSE BcFeaturesLoop(k, images, j + 1, features_list, extracts2)
               ELSE BcFeaturesLoop(k, images, j + 1, features_list, extracts2)

\* for unidentified in unidentified_persons (from index k): the pre-extraction;
\* iterating over an images value that is None raises TypeError
RECURSIVE BcPreExtract(_, _, _, _)
BcPreExtract(persons, k, unidentified_features, extracts) ==
  IF k > Len(persons)
    THEN [raised |-> FALSE, unidentified_features |-> unidentified_features,
          extracts |-> extracts]
    ELSE LET unidentified_id == GetId(persons[k])
             unidentified_images == GetImages(persons[k])
         IN  IF unidentified_images.isNone
               THEN [raised |-> TRUE, unidentified_features |-> unidentified_features,
                     extracts |-> extracts]
               ELSE LET r == BcFeaturesLoop(k, unidentified_images.items, 1, <<>>,
                                            extracts)
                    IN  BcPreExtract(persons, k + 1,
                          IF r.features_list # <<>>
                            THEN Append(unidentified_features,
                                        [id |-> unidentified_id,
                                         features |-> r.features_list,
                                         images |-> unidentified_images])
                            ELSE unidentified_features,
                          r.extracts)

\* for unidentified_feature in unidentified['features'] (from index j)
RECURSIVE BcBestSimilarity(_, _, _, _)
BcBestSimilarity(missing_features, features, j, best_similarity) ==
  IF j > Len(features)
    THEN best_similarity
    ELSE BcBestSimilarity(missing_features, features, j + 1,
           PyMax(best_similarity,
                 Similarity[missing_features, features[j]]))

\* for unidentified in unidentified_features (from index n), for one missing_img
RECURSIVE BcCandLoop(_, _, _, _, _)
BcCandLoop(missing_features, unidentified_features, n, thr, matches) ==
  IF n > Len(unidentified_features)
    THEN matches
    ELSE LET unidentified == unidentified_features[n]
             best_similarity ==
               BcBestSimilarity(missing_features, unidentified.features, 1, 0)
         IN  BcCandLoop(missing_features, unidentified_features, n + 1, thr,
               IF best_similarity >= thr
                 THEN Append(matches,
                             [unidentified_id |-> unidentified.id,
                              similarity |-> best_similarity,
                              unidentified_images |-> unidentified.images])
                 ELSE matches)

\* the concatenation of the sequences of a sequence
RECURSIVE Flatten(_)
Flatten(ss) == IF ss = <<>> THEN <<>> ELSE Head(ss) \o Flatten(Tail(ss))

\* for missing_img in missing_person_images (from index i)
RECURSIVE BcQueryLoop(_, _, _, _, _, _)
\* BcQueryLoop without the cache: the images of the candidates are extracted
\* again for every query image
BcQueryLoopReExtract(query, i, unidentified_features, thr, matches, extracts) ==
  IF i > Len(query)
    THEN [raised |-> FALSE, matches |-> matches, extracts |-> extracts]
    ELSE LET missing_face == extract_face(query[i])
             missing_features == extract_features(missing_face)
             again == Flatten([n \in 1..Len(unidentified_features) |->
                        [j \in 1..Len(unidentified_features[n].images.items) |->
                           LET url == unidentified_features[n].images.items[j]
                           IN  [phase |-> "unidentified", cand |-> n, url |-> url,
                                features |-> ~extract_face(url).isNone]]])
             extracts2 == Append(extracts, [phase |-> "missing", cand |-> 0,
                                            url |-> query[i],
                                            features |-> ~missing_face.isNone])
                            \o again
         IN  IF missing_face.isNone
               THEN BcQueryLoop(query, i + 1, unidentified_features, thr, matches,
                                extracts2)
               ELSE IF missing_features.isNone
                 THEN BcQueryLoop(query, i + 1, unidentified_features, thr, matches,
                                  extracts2)
                 ELSE BcQueryLoop(query, i + 1, unidentified_features, thr,
                        BcCandLoop(missing_features, unidentified_features, 1, thr,
                                   matches),
                        extracts2)

BcQueryLoop(query, i, unidentified_features, thr, matches, extracts) ==
  IF i > Len(query)
    THEN [raised |-> FALSE, matches |-> matches, extracts |-> extracts]
    ELSE LET missing_face == extract_face(query[i])
             missing_features == extract_features(missing_face)
             extracts2 == Append(extracts, [phase |-> "missing", cand |-> 0,
                                            url |-> query[i],
                                            features |-> ~missing_face.isNone])
         IN  IF missing_face.isNone
               THEN BcQueryLoop(query, i + 1, unidentified_features, thr, matches,
                                extracts2)
               ELSE IF missing_features.isNone
                 THEN BcQueryLoop(query, i + 1, unidentified_features, thr, matches,
                                  extracts2)
                 ELSE BcQueryLoop(query, i + 1, unidentified_features, thr,
                        BcCandLoop(missing_features, unidentified_features, 1, thr,
                                   matches),
                        extracts2)

BatchCompare(query, persons, thr) ==
  LET pre == BcPreExtract(persons.items, 1, <<>>, <<>>)
  IN  IF pre.raised
        THEN [raised |-> TRUE, matches |-> <<>>, extracts |-> pre.extracts]
        ELSE IF query.isNone
          THEN [raised |-> TRUE, matches |-> <<>>, extracts |-> pre.extracts]
          ELSE BcQueryLoop(query.items, 1, pre.unidentified_features, thr, <<>>,
                           pre.extracts)

---------------------------------------------------------------------------
(* The inputs of a search *)

\* an image list argument or field: None or a list of at most n URLs
ImageLists(urls, n) == {PyNone} \cup {PyList(s) : s \in SeqsUpTo(urls, n)}

\* what a candidate record holds under "images": nothing (no such key), None
\* or a list
ImagesFields(urls) ==
  {[key |-> FALSE, images |-> PyNone]}
    \cup {[key |-> TRUE, images |-> v] : v \in ImageLists(urls, MaxImages)}

\* the k-th record of the candidate list; ids are unique, as in the database
Person(k, f) == IF f.key THEN [_id |-> k, images |-> f.images] ELSE [_id |-> k]

PersonLists(urls) ==
  {PyList([k \in 1..Len(fs) |-> Person(k, fs[k])]) :
     fs \in SeqsUpTo(ImagesFields(urls), MaxCands)}

\* the ways loading can go in __init__: (modelLoads, cascadeFileExists,
\* cascadeEmpty)
Constructions == {FaceMatcherInit(m, c, e) : m, c, e \in BOOLEAN}

Loaded == FaceMatcherInit(TRUE, TRUE, FALSE)

---------------------------------------------------------------------------
(* The state machine *)

NotCalled == [done |-> FALSE, raised |-> FALSE, matches |-> <<>>, log |-> <<>>]

\* no calculate_similarity call is under study
NoSimilarityCall ==
  [features1 |-> PyNone, features2 |-> PyNone, done |-> FALSE, result |-> 0]

\* no crop is under study
NoCropCall ==
  [img |-> [rows |-> 0, cols |-> 0], faces |-> <<>>, done |-> FALSE,
   face |-> [x |-> 0, y |-> 0, w |-> 0, h |-> 0]]

\* a constructed matcher and the arguments of the searches made with it
InitWith(constructions, urls) ==
  /\ \E o \in constructions : model = o.model /\ face_cascade = o.face_cascade
  /\ missing_person_images \in ImageLists(urls, MaxQuery)
  /\ unidentified_persons \in PersonLists(urls)
  /\ threshold \in Thresholds
  /\ fm = NotCalled
  /\ bc = NotCalled
  /\ sc = NoSimilarityCall
  /\ ef = NoCropCall

\* both resources loaded
Init == InitWith({Loaded}, Urls)

\* any outcome of the construction
InitAny == InitWith(Constructions, Urls)

\* find_matches with a matches list that is kept on the matcher from one
\* call to the next
find_matchesKeepsMatches ==
  /\ LET r == FindMatches(missing_person_images, unidentified_persons, threshold)
     IN  fm' = [done |-> TRUE, raised |-> r.raised,
                matches |-> fm.matches \o r.matches, log |-> r.calls]
  /\ UNCHANGED <<model, face_cascade, missing_person_images,
                 unidentified_persons, threshold, bc, sc, ef>>

find_matches ==
  /\ LET r == FindMatches(missing_person_images, unidentified_persons, threshold)
     IN  fm' = [done |-> TRUE, raised |-> r.raised, matches |-> r.matches,
                log |-> r.calls]
  /\ UNCHANGED <<model, face_cascade, missing_person_images,
                 unidentified_persons, threshold, bc, sc, ef>>

batch_compare ==
  /\ LET r == BatchCompare(missing_person_images, unidentified_persons, threshold)
     IN  bc' = [done |-> TRUE, raised |-> r.raised, matches |-> r.matches,
                log |-> r.extracts]
  /\ UNCHANGED <<model, face_cascade, missing_person_images,
                 unidentified_persons, threshold, fm, sc, ef>>

Next == find_matches \/ batch_compare

Spec == Init /\ [][Next]_vars

SpecAny == InitAny /\ [][Next]_vars

---------------------------------------------------------------------------
(* calculate_similarity on its own *)

\* a matcher on which no search is made
NoSearch ==
  /\ model = Loaded.model
  /\ face_cascade = Loaded.face_cascade
  /\ missing_person_images = PyList(<<>>)
  /\ unidentified_persons = PyList(<<>>)
  /\ threshold = 70
  /\ fm = NotCalled
  /\ bc = NotCalled

\* an argument of calculate_similarity: None or a vector, which may be
\* empty, all zero, or of another length than the other argument
FeatureValues ==
  {PyNone} \cup {[isNone |-> FALSE, vec |-> v] :
                   v \in SeqsUpTo(-MaxAbs..MaxAbs, MaxDim)}

InitSimilarity ==
  /\ NoSearch
  /\ \E f1, f2 \in FeatureValues :
       sc = [features1 |-> f1, features2 |-> f2, done |-> FALSE, result |-> 0]
  /\ ef = NoCropCall

CalculateSimilarity ==
  /\ sc' = [sc EXCEPT !.done = TRUE,
                     !.result = calculate_similarity(sc.features1, sc.features2)]
  /\ UNCHANGED <<model, face_cascade, missing_person_images,
                 unidentified_persons, threshold, fm, bc, ef>>

NextSimilarity == CalculateSimilarity

SpecSimilarity == InitSimilarity /\ [][NextSimilarity]_vars

---------------------------------------------------------------------------
(* The crop of extract_face on its own *)

\* the shapes of a decoded image
Images == {[rows |-> r, cols |-> c] : r \in 1..MaxRows, c \in 1..MaxCols}

\* the boxes the detector can return for img: inside the image, of positive
\* width and height
Boxes(img) ==
  {b \in [x : 0..(img.cols - 1), y : 0..(img.rows - 1),
          w : 1..img.cols, h : 1..img.rows] :
     b.x + b.w <= img.cols /\ b.y + b.h <= img.rows}

InitCrop ==
  /\ NoSearch
  /\ sc = NoSimilarityCall
  /\ \E img \in Images : \E faces \in SeqsUpTo(Boxes(img), MaxFaces) :
       ef = [img |-> img, faces |-> faces, done |-> FALSE,
             face |-> [x |-> 0, y |-> 0, w |-> 0, h |-> 0]]

ExtractFace ==
  /\ ef' = [ef EXCEPT !.done = TRUE,
                     !.face = ExtractFaceRegion(ef.img, ef.faces)]
  /\ UNCHANGED <<model, face_cascade, missing_person_images,
                 unidentified_persons, threshold, fm, bc, sc>>

NextCrop == ExtractFace

SpecCrop == InitCrop /\ [][NextCrop]_vars

---------------------------------------------------------------------------
(* Vocabulary of the properties *)

Query == missing_person_images

Persons == unidentified_persons.items

CandImages(k) == GetImages(Persons[k])

CandId(k) == GetId(Persons[k])

\* the query and candidate k both have at least one image
HasPairs(k) == Truthy(Query) /\ Truthy(CandImages(k))

\* the similarities of all query-image x candidate-image pairs of candidate k
PairSims(k) ==
  {compare_faces(Query.items[i], CandImages(k).items[j]) :
     i \in 1..Len(Query.items), j \in 1..Len(CandImages(k).items)}

SetMax(S) == CHOOSE x \in S : \A y \in S : y <= x

BestSimilarity(k) == SetMax(PairSims(k))

MatchIds(r) == {r.matches[i].unidentified_id : i \in DOMAIN r.matches}

\* the positions in the result of r that hold candidate k
EntriesOf(r, k) == {i \in DOMAIN r.matches : r.matches[i].unidentified_id = CandId(k)}

\* the image behind u passes face and feature extraction
Usable(u) == ~extract_features(extract_face(u)).isNone

ImagesOf(list) == {list.items[i] : i \in 1..Len(list.items)}

\* some pair of usable images of candidate k scores at least the threshold
ScoringPair(k) ==
  \E u \in ImagesOf(Query), v \in ImagesOf(CandImages(k)) :
    Usable(u) /\ Usable(v) /\ compare_faces(u, v) >= threshold

\* the compare_faces calls find_matches made for candidate k, in order
ComparedFor(k) == SelectSeq(fm.log, LAMBDA c : c.cand = k)

RECURSIVE IsSubsequence(_, _)
IsSubsequence(s, t) ==
  IF s = <<>> THEN TRUE
  ELSE IF t = <<>> THEN FALSE
  ELSE IF Head(s) = Head(t) THEN IsSubsequence(Tail(s), Tail(t))
  ELSE IsSubsequence(s, Tail(t))

\* an argument that is None where a list is expected
NoneListGiven ==
  Query.isNone \/ \E k \in 1..Len(Persons) : CandImages(k).isNone

---------------------------------------------------------------------------
(* C1 *)

NoResultBelowThreshold(r) ==
  r.done =>
    \A i \in DOMAIN r.matches :
      /\ r.matches[i].similarity >= threshold
      /\ \E k \in 1..Len(Persons) :
           /\ CandId(k) = r.matches[i].unidentified_id
           /\ HasPairs(k)
           /\ BestSimilarity(k) >= threshold

\* C1: every result of find_matches and of batch_compare has similarity >=
\* threshold and belongs to a candidate whose best pairwise similarity is >=
\* threshold; a candidate scoring below the threshold is never returned.
C1_NoResultBelowThreshold ==
  NoResultBelowThreshold(fm) /\ NoResultBelowThreshold(bc)

\* two candidates, one scoring above 0 but below the threshold and one reaching
\* it: both searches return only the second
C1_Witness ==
  /\ fm.done /\ bc.done
  /\ \E k1, k2 \in 1..Len(Persons) :
       /\ HasPairs(k1) /\ HasPairs(k2)
       /\ BestSimilarity(k1) > 0 /\ BestSimilarity(k1) < threshold
       /\ BestSimilarity(k2) >= threshold
       /\ MatchIds(fm) = {CandId(k2)}
       /\ MatchIds(bc) = {CandId(k2)}

---------------------------------------------------------------------------
(* C2 *)

Qualifying == {k \in 1..Len(Persons) : HasPairs(k) /\ BestSimilarity(k) >= threshold}

\* C2: find_matches returns every candidate whose best similarity over all
\* query-image x candidate-image pairs is >= threshold, exactly once, and
\* holds no second entry for any candidate.
C2_EveryQualifyingCandidateOnce ==
  fm.done =>
    /\ \A k \in 1..Len(Persons) : Cardinality(EntriesOf(fm, k)) <= 1
    /\ \A k \in Qualifying : Cardinality(EntriesOf(fm, k)) = 1
    /\ Len(fm.matches) = Cardinality(Qualifying)

\* a candidate qualifies only through a pair of the second query image, next
\* to a candidate that does not qualify
C2_Witness ==
  /\ fm.done
  /\ threshold > 0
  /\ Len(Persons) = 2
  /\ Cardinality(Qualifying) = 1
  /\ \E k \in Qualifying :
       /\ Len(Query.items) = 2
       /\ \A v \in ImagesOf(CandImages(k)) :
            compare_faces(Query.items[1], v) < threshold
       /\ Cardinality(EntriesOf(fm, k)) = 1

---------------------------------------------------------------------------
(* C3 *)

\* C3: for the same query images, candidates and threshold, batch_compare and
\* find_matches return the same set of candidate ids.
C3_SameCandidateIds ==
  (fm.done /\ bc.done /\ ~bc.raised) => MatchIds(fm) = MatchIds(bc)

---------------------------------------------------------------------------
(* C4 *)

\* C4 as claimed: the similarity stored in a find_matches result is the best
\* similarity over all query-image x candidate-image pairs of its candidate.
C4_StoresBestOverAllPairs ==
  fm.done =>
    \A i \in DOMAIN fm.matches : \A k \in 1..Len(Persons) :
      (CandId(k) = fm.matches[i].unidentified_id /\ HasPairs(k))
        => fm.matches[i].similarity = BestSimilarity(k)

\* C4 as amended: the similarity stored in a find_matches result is the best
\* similarity over the pairs compared for its candidate. These are a prefix of
\* the pairs in query-image-major order, in which no pair before the last one
\* scored both above 0 and at least the threshold; the stored value is >=
\* threshold and <= the best over all pairs.
C4_StoresBestOfComparedPairs ==
  fm.done =>
    \A i \in DOMAIN fm.matches : \A k \in 1..Len(Persons) :
      (CandId(k) = fm.matches[i].unidentified_id) =>
        LET cs == ComparedFor(k)
            n == Len(CandImages(k).items)
            stored == fm.matches[i].similarity
        IN  /\ HasPairs(k)
            /\ cs # <<>>
            /\ stored = SetMax({cs[c].similarity : c \in 1..Len(cs)})
            /\ stored >= threshold
            /\ stored <= BestSimilarity(k)
            /\ \A c \in 1..Len(cs) :
                 /\ cs[c].missing_img = Query.items[((c - 1) \div n) + 1]
                 /\ cs[c].unidentified_img = CandImages(k).items[((c - 1) % n) + 1]
                 /\ cs[c].similarity = compare_faces(cs[c].missing_img,
                                                     cs[c].unidentified_img)
            /\ \A c \in 1..(Len(cs) - 1) :
                 cs[c].similarity < threshold \/ cs[c].similarity = 0

\* a returned candidate whose stored similarity is below its best over all
\* pairs, at the default threshold
C4_Witness ==
  /\ fm.done
  /\ threshold = 70
  /\ \E i \in DOMAIN fm.matches : \E k \in 1..Len(Persons) :
       /\ CandId(k) = fm.matches[i].unidentified_id
       /\ fm.matches[i].similarity < BestSimilarity(k)

---------------------------------------------------------------------------
(* C5 *)

ResultIds(r) == [i \in DOMAIN r.matches |-> r.matches[i].unidentified_id]

CandidateIds == [k \in 1..Len(Persons) |-> CandId(k)]

\* C5: the results of find_matches are in the order of their candidates in the
\* input list: the result ids are a subsequence of the candidate ids.
C5_ResultsInCandidateOrder ==
  fm.done => IsSubsequence(ResultIds(fm), CandidateIds)

\* two results, the second with the higher score
C5_Witness ==
  /\ fm.done
  /\ Len(fm.matches) = 2
  /\ fm.matches[1].similarity < fm.matches[2].similarity

---------------------------------------------------------------------------
(* C6 *)

\* C6: find_matches with an empty query image list or an empty candidate list
\* returns the empty list, at every threshold, without any comparison.
C6_EmptyInputsGiveEmptyResult ==
  (fm.done /\ (Persons = <<>> \/ (~Query.isNone /\ Query.items = <<>>))) =>
    /\ ~fm.raised
    /\ fm.matches = <<>>
    /\ fm.log = <<>>

\* an empty query list, a candidate with images and threshold 0
C6_Witness ==
  /\ fm.done
  /\ ~Query.isNone /\ Query.items = <<>>
  /\ threshold = 0
  /\ \E k \in 1..Len(Persons) : Truthy(CandImages(k))

---------------------------------------------------------------------------
(* C7 *)

MissingListsSkipped(r) ==
  r.done =>
    /\ ~r.raised
    /\ \A k \in 1..Len(Persons) : ~Truthy(CandImages(k)) => EntriesOf(r, k) = {}
    /\ ~Truthy(Query) => r.matches = <<>>

\* C7: in find_matches and in batch_compare a candidate whose image list is
\* empty or missing (absent or None), and a query list that is empty or
\* missing, is skipped silently: no result for it and no exception.
C7_MissingImageListsSkipped ==
  MissingListsSkipped(fm) /\ MissingListsSkipped(bc)

---------------------------------------------------------------------------
(* C8 *)

\* C8: a failure on one image is absorbed as similarity 0 / image skipped and
\* never raised by compare_faces, find_matches or batch_compare; a candidate
\* with a pair of usable images scoring >= threshold is still returned when
\* other images fail. (batch_compare raises only on a None list.)
C8_ImageFailuresAbsorbed ==
  /\ fm.done =>
       /\ ~fm.raised
       /\ \A c \in 1..Len(fm.log) :
            (~Usable(fm.log[c].missing_img) \/ ~Usable(fm.log[c].unidentified_img))
              => fm.log[c].similarity = 0
       /\ \A k \in 1..Len(Persons) :
            (HasPairs(k) /\ ScoringPair(k)) => CandId(k) \in MatchIds(fm)
  /\ bc.done =>
       /\ bc.raised => NoneListGiven
       /\ ~bc.raised =>
            \A k \in 1..Len(Persons) :
              (HasPairs(k) /\ ScoringPair(k)) => CandId(k) \in MatchIds(bc)

\* the first query image and the first image of a candidate fail, at different
\* stages, and the candidate is returned by both searches through its second
\* image
C8_Witness ==
  /\ fm.done /\ bc.done
  /\ threshold = 70
  /\ \E k \in 1..Len(Persons) :
       /\ HasPairs(k)
       /\ Len(Query.items) = 2 /\ Len(CandImages(k).items) = 2
       /\ Query.items[1] \in Unreachable
       /\ CandImages(k).items[1] \in Unextractable
       /\ ScoringPair(k)
       /\ CandId(k) \in MatchIds(fm)
       /\ CandId(k) \in MatchIds(bc)

---------------------------------------------------------------------------
(* C9 *)

\* C9: when the model or the face detector failed to load, compare_faces
\* returns 0 and find_matches and batch_compare report no candidate as a
\* match, for any image lists and any threshold, without raising.
C9_DegradedMatcherReportsNothing ==
  ((model = "None" \/ face_cascade = "None") /\ ~NoneListGiven) =>
    /\ fm.done =>
         /\ ~fm.raised
         /\ \A c \in 1..Len(fm.log) : fm.log[c].similarity = 0
         /\ fm.matches = <<>>
    /\ bc.done => (~bc.raised /\ bc.matches = <<>>)

---------------------------------------------------------------------------
(* C10 *)

\* a usable image that is both a query image and an image of candidate k
SharedUsable(k) ==
  \E u \in ImagesOf(Query) \cap ImagesOf(CandImages(k)) : Usable(u)

---------------------------------------------------------------------------
(* C11 *)

\* an argument that is None, empty or of zero norm
Degenerate(f) ==
  \/ f.isNone
  \/ Len(f.vec) = 0
  \/ \A i \in 1..Len(f.vec) : f.vec[i] = 0

\* non-zero vectors of one length pointing in opposite directions:
\* a * u = -(b * v) for positive a and b
AntiParallel(f1, f2) ==
  /\ ~Degenerate(f1) /\ ~Degenerate(f2)
  /\ Len(f1.vec) = Len(f2.vec)
  /\ \E a, b \in 1..MaxAbs :
       \A i \in 1..Len(f1.vec) : a * f1.vec[i] + b * f2.vec[i] = 0

\* C11: calculate_similarity returns a value in [0, 100]; it returns 0 for
\* anti-parallel vectors and whenever an argument is None, empty or of zero
\* norm.
C11_SimilarityInRangeZeroWhenDegenerate ==
  sc.done =>
    /\ sc.result \in 0..100
    /\ AntiParallel(sc.features1, sc.features2) => sc.result = 0
    /\ Degenerate(sc.features1) \/ Degenerate(sc.features2) => sc.result = 0

\* a call on anti-parallel vectors that are not multiples by -1
C11_Witness ==
  /\ sc.done
  /\ AntiParallel(sc.features1, sc.features2)
  /\ Len(sc.features1.vec) = 2
  /\ sc.features1.vec[1] + sc.features2.vec[1] # 0
  /\ sc.result = 0

---------------------------------------------------------------------------
(* C12 *)

\* best_match['similarity'] of candidate k after its first n compare_faces
\* calls: the largest similarity so far, 0 at the start
RunningBest(k, n) ==
  SetMax({0} \cup {ComparedFor(k)[c].similarity : c \in 1..n})

\* C12: find_matches makes no compare_faces call for a candidate whose
\* running best similarity has reached the threshold, for every threshold,
\* also one that the initial running best of 0 meets.
C12_NoCallOnceBestReachesThreshold ==
  fm.done =>
    \A k \in 1..Len(Persons) : \A c \in 1..Len(ComparedFor(k)) :
      RunningBest(k, c - 1) < threshold

---------------------------------------------------------------------------
(* C13 *)

\* one extraction of the image behind url: extract_face, then
\* extract_features if a face came out
Extraction(phase, k, url) ==
  [phase |-> phase, cand |-> k, url |-> url,
   features |-> ~extract_face(url).isNone]

\* one extraction per image occurrence of candidate k, in list order
CandExtractions(k) ==
  IF CandImages(k).isNone
    THEN <<>>
    ELSE [j \in 1..Len(CandImages(k).items) |->
            Extraction("unidentified", k, CandImages(k).items[j])]

\* one extraction per query image, in list order
QueryExtractions ==
  IF Query.isNone
    THEN <<>>
    ELSE [i \in 1..Len(Query.items) |-> Extraction("missing", 0, Query.items[i])]

\* every candidate image once, candidate by candidate, then every query
\* image once
ExtractionSchedule ==
  Flatten([k \in 1..Len(Persons) |-> CandExtractions(k)]) \o QueryExtractions

IsPrefix(s, t) == Len(s) <= Len(t) /\ s = SubSeq(t, 1, Len(s))

\* C13: the extractions of a batch_compare call that returns are one per
\* candidate image occurrence, all before the extraction of the first query
\* image, then one per query image, and no other; a call that raises has
\* made a prefix of them.
C13_ExtractionOncePerImageCandidatesFirst ==
  bc.done =>
    /\ IsPrefix(bc.log, ExtractionSchedule)
    /\ ~bc.raised => bc.log = ExtractionSchedule

\* two query images and a candidate that lists one image twice, after
\* another candidate with an image whose download fails
C13_Witness ==
  /\ bc.done /\ ~bc.raised
  /\ Len(Persons) = 2
  /\ Len(Query.items) = 2
  /\ CandImages(1).items = <<"f">>
  /\ CandImages(2).items = <<"a", "a">>
  /\ Len(bc.log) = 5

---------------------------------------------------------------------------
(* C14 *)

\* C14: in the result of a batch_compare call that returns, with any number
\* of query images, each candidate appears at most once, the candidates are
\* in candidate input order, and the stored similarity of a candidate is
\* the best similarity over all its query-image x candidate-image pairs.
C14_BatchCompareOncePerCandidateBestOverAll ==
  (bc.done /\ ~bc.raised) =>
    /\ \A k \in 1..Len(Persons) : Cardinality(EntriesOf(bc, k)) <= 1
    /\ IsSubsequence(ResultIds(bc), CandidateIds)
    /\ \A i \in DOMAIN bc.matches : \A k \in 1..Len(Persons) :
         (CandId(k) = bc.matches[i].unidentified_id) =>
           bc.matches[i].similarity = BestSimilarity(k)

---------------------------------------------------------------------------
(* C15 *)

\* C15: on a decoded image with the detector available, extract_face
\* returns the whole image when no face is detected, and when faces are
\* detected a crop of positive width and height that lies inside the image.
C15_RegionUsable ==
  ef.done =>
    /\ Len(ef.faces) = 0 =>
         ef.face = [x |-> 0, y |-> 0, w |-> ef.img.cols, h |-> ef.img.rows]
    /\ Len(ef.faces) > 0 =>
         /\ 0 <= ef.face.x /\ 0 <= ef.face.y
         /\ ef.face.x + ef.face.w <= ef.img.cols
         /\ ef.face.y + ef.face.h <= ef.img.rows
         /\ ef.face.w > 0 /\ ef.face.h > 0

\* the padding of the detection reaches over the left and the lower edge of
\* the image
C15_Witness ==
  /\ ef.done
  /\ Len(ef.faces) = 1
  /\ ef.faces[1].w >= 5 /\ ef.faces[1].h >= 5
  /\ ef.faces[1].x = 0
  /\ ef.faces[1].y + ef.faces[1].h = ef.img.rows
  /\ ef.face.x = 0
  /\ ef.face.y + ef.face.h = ef.img.rows
  /\ ef.face.w > ef.faces[1].w

---------------------------------------------------------------------------
(* C16 *)

\* the detections of largest area w*h
LargestBoxes ==
  {i \in 1..Len(ef.faces) :
     \A j \in 1..Len(ef.faces) :
       ef.faces[j].w * ef.faces[j].h <= ef.faces[i].w * ef.faces[i].h}

\* floor(0.2 * min(w, h)) of a box
Margin(b) == CHOOSE p \in 0..(MaxCols + MaxRows) :
               5 * p <= PyMin(b.w, b.h) /\ PyMin(b.w, b.h) < 5 * (p + 1)

\* C16: when faces are detected, the crop is a detection of largest area
\* expanded by its margin p on each of the four sides and clamped to the
\* image: columns max(0, x - p) to min(W, x + w + p), rows max(0, y - p) to
\* min(H, y + h + p).
C16_CropIsBoxPaddedByMarginClamped ==
  (ef.done /\ Len(ef.faces) > 0) =>
    \E i \in LargestBoxes :
      LET b == ef.faces[i]
          p == Margin(b)
      IN  /\ ef.face.x = PyMax(0, b.x - p)
          /\ ef.face.x + ef.face.w = PyMin(ef.img.cols, b.x + b.w + p)
          /\ ef.face.y = PyMax(0, b.y - p)
          /\ ef.face.y + ef.face.h = PyMin(ef.img.rows, b.y + b.h + p)

---------------------------------------------------------------------------
(* C18 *)

\* C18: the crop contains the whole detection it was built from, a
\* detection of largest area: it starts at or before the corner of the box
\* and ends at or after its far corner, also when the padding is clamped.
C18_CropContainsFaceBox ==
  (ef.done /\ Len(ef.faces) > 0) =>
    \E i \in LargestBoxes :
      LET b == ef.faces[i]
      IN  /\ ef.face.x <= b.x
          /\ ef.face.y <= b.y
          /\ ef.face.x + ef.face.w >= b.x + b.w
          /\ ef.face.y + ef.face.h >= b.y + b.h

\* the larger of two detections is the second one; it touches the right
\* edge of the image, where its padding is cut off, and is padded on the
\* left
C18_Witness ==
  /\ ef.done
  /\ Len(ef.faces) = 2
  /\ LargestBoxes = {2}
  /\ ef.faces[2].x + ef.faces[2].w = ef.img.cols
  /\ ef.face.x < ef.faces[2].x
  /\ ef.face.x + ef.face.w = ef.img.cols
  /\ ef.face.y <= ef.faces[2].y
  /\ ef.face.y + ef.face.h >= ef.faces[2].y + ef.faces[2].h

---------------------------------------------------------------------------
(* C17 *)

\* every entry of the result r carries the complete image list of its
\* candidate
CarriesCompleteImageLists(r) ==
  \A i \in DOMAIN r.matches : \A k \in 1..Len(Persons) :
    (CandId(k) = r.matches[i].unidentified_id) =>
      r.matches[i].unidentified_images = CandImages(k)

\* C17: a call of find_matches or batch_compare leaves the model and
\* face_cascade fields, the query list and the candidate records as they
\* were; every entry of its result carries the complete image list of its
\* candidate; and a call made after an earlier call of the same operation
\* returns what the earlier call returned.
C17_NoStateKeptArgumentsUntouched ==
  [][/\ model' = model /\ face_cascade' = face_cascade
     /\ missing_person_images' = missing_person_images
     /\ unidentified_persons' = unidentified_persons
     /\ CarriesCompleteImageLists(fm') /\ CarriesCompleteImageLists(bc')
     /\ fm.done => (fm'.raised = fm.raised /\ fm'.matches = fm.matches)
     /\ bc.done => (bc'.raised = bc.raised /\ bc'.matches = bc.matches)]_vars

\* both searches return a candidate whose first image fails to download,
\* with both of its images in the entry
C17_Witness ==
  /\ fm.done /\ bc.done
  /\ \E k \in 1..Len(Persons) :
       /\ CandImages(k) = PyList(<<"f", "a">>)
       /\ \E i \in DOMAIN fm.matches :
            /\ fm.matches[i].unidentified_id = CandId(k)
            /\ fm.matches[i].unidentified_images = PyList(<<"f", "a">>)
       /\ \E i \in DOMAIN bc.matches :
            /\ bc.matches[i].unidentified_id = CandId(k)
            /\ bc.matches[i].unidentified_images = PyList(<<"f", "a">>)

====
